---- MODULE Spec2Model ----
(***************************************************************************)
(* Model of scripts/extract_reviews.py: main() checks that the two Arrow   *)
(* partitions exist, reads them, concatenates train + test, runs clean()   *)
(* and writes the cleaned records to a tab-separated file.                 *)
(*                                                                         *)
(* A string is a sequence of one-character strings, so that strip(),       *)
(* replace() and the written file are computed character by character.     *)
(***************************************************************************)
EXTENDS FiniteSets, Integers, Sequences, TLC

\* ------------------------------------------------------------------ bounds
\* Largest number of rows of the train and test partitions together.
MaxRows == 3

\* --------------------------------------------------------------- constants
MIN_CONTENT_LEN == 10

TRAIN_ARROW == "train/data-00000-of-00001.arrow"
TEST_ARROW == "test/data-00000-of-00001.arrow"

\* Python's None as a value of the content column.  "None" is not a
\* character, so this value differs from every character sequence.
None == <<"None">>

\* The characters str.strip() removes (those of the model's alphabet).
Whitespace == {" ", "\t", "\n", "\r"}

\* ------------------------------------------------------------------ inputs
Word(n) == [i \in 1..n |-> "a"]

\* A text of n characters with an embedded tab, newline and carriage return.
Mixed(n) ==
    [i \in 1..n |->
        IF i = 2 THEN "\t" ELSE IF i = 4 THEN "\n" ELSE IF i = 6 THEN "\r"
        ELSE "a"]

\* The values of the content column: null, a text that reaches
\* MIN_CONTENT_LEN only with its surrounding whitespace, and texts of
\* exactly MIN_CONTENT_LEN characters once stripped: plain, surrounded by
\* whitespace, and with embedded tab, newline and carriage return.
Contents ==
    { None,
      <<" ">> \o Word(MIN_CONTENT_LEN - 1) \o <<"\n">>,
      Word(MIN_CONTENT_LEN),
      <<"\t">> \o Word(MIN_CONTENT_LEN) \o <<" ">>,
      Mixed(MIN_CONTENT_LEN) }

Scores == {1, 5}

Rows == [content : Contents, score : Scores]

SeqsUpTo(S, n) == UNION { [1..k -> S] : k \in 0..n }

\* ------------------------------------------------------------------- state
VARIABLES
    exists,          \* Path.exists() of the two input paths
    trainFile,       \* rows stored in the train partition
    testFile,        \* rows stored in the test partition
    pc,              \* position of main()
    pathIdx,         \* index of the loop over (TRAIN_ARROW, TEST_ARROW)
    readLog,         \* paths read_arrow() was called on, in order
    train_records,
    test_records,
    combined,
    cleanCalled,     \* clean() has been called
    seen_content,    \* locals of clean() at its return
    deduped,
    length_filtered,
    ambiguous,
    cleaned,
    score_counts,
    dirCreated,      \* OUTPUT_TSV.parent.mkdir() has run
    outOpened,       \* OUTPUT_TSV has been opened for writing
    outFile,         \* characters written to OUTPUT_TSV
    wi,              \* index of the row the write loop is at
    stderr,          \* paths reported as missing
    exitCode

vars == << exists, trainFile, testFile, pc, pathIdx, readLog, train_records,
           test_records, combined, cleanCalled, seen_content, deduped,
           length_filtered, ambiguous, cleaned, score_counts, dirCreated,
           outOpened, outFile, wi, stderr, exitCode >>

\* ---------------------------------------------------------------- strings
RECURSIVE lstrip(_)
lstrip(s) ==
    IF s = <<>> THEN s
    ELSE IF Head(s) \in Whitespace THEN lstrip(Tail(s)) ELSE s

RECURSIVE rstrip(_)
rstrip(s) ==
    IF s = <<>> THEN s
    ELSE IF s[Len(s)] \in Whitespace THEN rstrip(SubSeq(s, 1, Len(s) - 1))
    ELSE s

\* str.strip()
strip(s) == rstrip(lstrip(s))

\* str.replace(old, " ") for a one-character old
replace(s, old) == [i \in 1..Len(s) |-> IF s[i] = old THEN " " ELSE s[i]]

DigitChars == <<"0", "1", "2", "3", "4", "5", "6", "7", "8", "9">>

\* The decimal digits an f-string writes for a non-negative int
RECURSIVE str(_)
str(n) ==
    IF n < 10 THEN << DigitChars[n + 1] >>
    ELSE str(n \div 10) \o << DigitChars[(n % 10) + 1] >>

\* ----------------------------------------------------------------- clean()
\* The first loop of clean(): skip None, keep the first occurrence.
RECURSIVE dedup_loop(_, _, _, _)
dedup_loop(records, i, seen, out) ==
    IF i > Len(records) THEN [seen_content |-> seen, deduped |-> out]
    ELSE LET c == records[i].content
         IN  IF c = None THEN dedup_loop(records, i + 1, seen, out)
             ELSE IF c \notin seen
                  THEN dedup_loop(records, i + 1, seen \cup {c},
                                  Append(out, records[i]))
                  ELSE dedup_loop(records, i + 1, seen, out)

\* Variant: the membership test is missing, every non-null row is kept.
dedup_keep_all(records) ==
    LET notNull(r) == r.content # None
        kept == SelectSeq(records, notNull)
    IN  [seen_content |-> {kept[i].content : i \in DOMAIN kept},
         deduped |-> kept]

\* Variant: the last occurrence of a content is kept instead of the first.
RECURSIVE keep_last_loop(_, _, _)
keep_last_loop(records, i, out) ==
    IF i > Len(records) THEN out
    ELSE IF /\ records[i].content # None
            /\ \A j \in (i + 1)..Len(records) :
                  records[j].content # records[i].content
         THEN keep_last_loop(records, i + 1, Append(out, records[i]))
         ELSE keep_last_loop(records, i + 1, out)

dedup_keep_last(records) ==
    [seen_content |-> {r.content : r \in {records[i] : i \in DOMAIN records}}
                        \ {None},
     deduped |-> keep_last_loop(records, 1, <<>>)]

\* Variant: the content is added to seen_content before the None test.
dedup_adds_none(records) ==
    [seen_content |-> dedup_loop(records, 1, {}, <<>>).seen_content
                        \cup ({records[i].content : i \in DOMAIN records}
                                \cap {None}),
     deduped |-> dedup_loop(records, 1, {}, <<>>).deduped]

dedup(records) == dedup_loop(records, 1, {}, <<>>)

\* Variant: the length is taken without strip().
keep_long_raw(r) == Len(r.content) >= MIN_CONTENT_LEN

keep_long(r) == Len(strip(r.content)) >= MIN_CONTENT_LEN

length_filter(rows) == SelectSeq(rows, keep_long)

\* content_scores: the set of scores of each content of rows
content_scores(rows) ==
    [c \in {rows[i].content : i \in DOMAIN rows} |->
        {rows[i].score : i \in {j \in DOMAIN rows : rows[j].content = c}}]

find_ambiguous(rows) ==
    {c \in DOMAIN content_scores(rows) :
        Cardinality(content_scores(rows)[c]) > 1}

drop_ambiguous(rows, amb) ==
    LET unambiguous(r) == r.content \notin amb
    IN  SelectSeq(rows, unambiguous)

\* Variant: the loop over records starts at the second record.
clean_skip_first(records) ==
    LET lf == length_filter(dedup(Tail(records)).deduped)
    IN  IF records = <<>> THEN <<>>
        ELSE drop_ambiguous(lf, find_ambiguous(lf))

\* Variant: the last comprehension filters deduped, not length_filtered.
clean_filters_deduped(records) ==
    LET lf == length_filter(dedup(records).deduped)
    IN  drop_ambiguous(dedup(records).deduped, find_ambiguous(lf))

clean(records) ==
    LET lf == length_filter(dedup(records).deduped)
    IN  drop_ambiguous(lf, find_ambiguous(lf))

\* ------------------------------------------------------------------ main()
count_scores(rows) ==
    [s \in {rows[i].score : i \in DOMAIN rows} |->
        Cardinality({i \in DOMAIN rows : rows[i].score = s})]

\* Variant: carriage returns are not replaced.
tsv_line_keeps_cr(row) ==
    replace(replace(row.content, "\t"), "\n")
        \o <<"\t">> \o str(row.score) \o <<"\n">>

\* The line main() writes for one row
tsv_line(row) ==
    replace(replace(replace(row.content, "\t"), "\n"), "\r")
        \o <<"\t">> \o str(row.score) \o <<"\n">>

Paths == << TRAIN_ARROW, TEST_ARROW >>

Init ==
    /\ exists \in [{TRAIN_ARROW, TEST_ARROW} -> BOOLEAN]
    /\ trainFile \in (IF exists[TRAIN_ARROW] THEN SeqsUpTo(Rows, MaxRows)
                                             ELSE {<<>>})
    /\ testFile \in (IF exists[TEST_ARROW]
                     THEN SeqsUpTo(Rows, MaxRows - Len(trainFile))
                     ELSE {<<>>})
    /\ pc = "check"
    /\ pathIdx = 1
    /\ readLog = <<>>
    /\ train_records = <<>>
    /\ test_records = <<>>
    /\ combined = <<>>
    /\ cleanCalled = FALSE
    /\ seen_content = {}
    /\ deduped = <<>>
    /\ length_filtered = <<>>
    /\ ambiguous = {}
    /\ cleaned = <<>>
    /\ score_counts = << >>
    /\ dirCreated = FALSE
    /\ outOpened = FALSE
    /\ outFile = <<>>
    /\ wi = 1
    /\ stderr = <<>>
    /\ exitCode = 0

\* Variant: the loop over the paths stops after the first path.
CheckPathFound_first_only ==
    /\ pc = "check"
    /\ pathIdx <= Len(Paths)
    /\ exists[Paths[pathIdx]]
    /\ pathIdx' = pathIdx + 1
    /\ pc' = "read_train"
    /\ UNCHANGED << exists, trainFile, testFile, readLog, train_records,
                    test_records, combined, cleanCalled, seen_content,
                    deduped, length_filtered, ambiguous, cleaned,
                    score_counts, dirCreated, outOpened, outFile, wi,
                    stderr, exitCode >>

\* for path in (TRAIN_ARROW, TEST_ARROW): the path exists
CheckPathFound ==
    /\ pc = "check"
    /\ pathIdx <= Len(Paths)
    /\ exists[Paths[pathIdx]]
    /\ pathIdx' = pathIdx + 1
    /\ pc' = IF pathIdx = Len(Paths) THEN "read_train" ELSE "check"
    /\ UNCHANGED << exists, trainFile, testFile, readLog, train_records,
                    test_records, combined, cleanCalled, seen_content,
                    deduped, length_filtered, ambiguous, cleaned,
                    score_counts, dirCreated, outOpened, outFile, wi,
                    stderr, exitCode >>

\* for path in (TRAIN_ARROW, TEST_ARROW): report the missing path, exit(1)
CheckPathMissing ==
    /\ pc = "check"
    /\ pathIdx <= Len(Paths)
    /\ ~exists[Paths[pathIdx]]
    /\ stderr' = Append(stderr, Paths[pathIdx])
    /\ exitCode' = 1
    /\ pc' = "exit"
    /\ UNCHANGED << exists, trainFile, testFile, pathIdx, readLog,
                    train_records, test_records, combined, cleanCalled,
                    seen_content, deduped, length_filtered, ambiguous,
                    cleaned, score_counts, dirCreated, outOpened, outFile,
                    wi >>

ReadTrain ==
    /\ pc = "read_train"
    /\ train_records' = trainFile
    /\ readLog' = Append(readLog, TRAIN_ARROW)
    /\ pc' = "read_test"
    /\ UNCHANGED << exists, trainFile, testFile, pathIdx, test_records,
                    combined, cleanCalled, seen_content, deduped,
                    length_filtered, ambiguous, cleaned, score_counts,
                    dirCreated, outOpened, outFile, wi, stderr, exitCode >>

ReadTest ==
    /\ pc = "read_test"
    /\ test_records' = testFile
    /\ readLog' = Append(readLog, TEST_ARROW)
    /\ pc' = "combine"
    /\ UNCHANGED << exists, trainFile, testFile, pathIdx, train_records,
                    combined, cleanCalled, seen_content, deduped,
                    length_filtered, ambiguous, cleaned, score_counts,
                    dirCreated, outOpened, outFile, wi, stderr, exitCode >>

Combine ==
    /\ pc = "combine"
    /\ combined' = train_records \o test_records
    /\ pc' = "clean"
    /\ UNCHANGED << exists, trainFile, testFile, pathIdx, readLog,
                    train_records, test_records, cleanCalled, seen_content,
                    deduped, length_filtered, ambiguous, cleaned,
                    score_counts, dirCreated, outOpened, outFile, wi,
                    stderr, exitCode >>

\* cleaned = clean(combined); the locals of the call are kept in the state
CallClean ==
    /\ pc = "clean"
    /\ cleanCalled' = TRUE
    /\ seen_content' = dedup(combined).seen_content
    /\ deduped' = dedup(combined).deduped
    /\ length_filtered' = length_filter(dedup(combined).deduped)
    /\ ambiguous' = find_ambiguous(length_filter(dedup(combined).deduped))
    /\ cleaned' = clean(combined)
    /\ pc' = "report"
    /\ UNCHANGED << exists, trainFile, testFile, pathIdx, readLog,
                    train_records, test_records, combined, score_counts,
                    dirCreated, outOpened, outFile, wi, stderr, exitCode >>

Report ==
    /\ pc = "report"
    /\ score_counts' = count_scores(cleaned)
    /\ pc' = "mkdir"
    /\ UNCHANGED << exists, trainFile, testFile, pathIdx, readLog,
                    train_records, test_records, combined, cleanCalled,
                    seen_content, deduped, length_filtered, ambiguous,
                    cleaned, dirCreated, outOpened, outFile, wi, stderr,
                    exitCode >>

\* OUTPUT_TSV.parent.mkdir(parents=True, exist_ok=True); OUTPUT_TSV.open("w")
OpenOutput ==
    /\ pc = "mkdir"
    /\ dirCreated' = TRUE
    /\ outOpened' = TRUE
    /\ outFile' = <<>>
    /\ wi' = 1
    /\ pc' = "write"
    /\ UNCHANGED << exists, trainFile, testFile, pathIdx, readLog,
                    train_records, test_records, combined, cleanCalled,
                    seen_content, deduped, length_filtered, ambiguous,
                    cleaned, score_counts, stderr, exitCode >>

\* for row in cleaned: out.write(...)
WriteRow ==
    /\ pc = "write"
    /\ wi <= Len(cleaned)
    /\ outFile' = outFile \o tsv_line(cleaned[wi])
    /\ wi' = wi + 1
    /\ UNCHANGED << exists, trainFile, testFile, pc, pathIdx, readLog,
                    train_records, test_records, combined, cleanCalled,
                    seen_content, deduped, length_filtered, ambiguous,
                    cleaned, score_counts, dirCreated, outOpened, stderr,
                    exitCode >>

\* end of the write loop: the file is closed and main() returns
Finish ==
    /\ pc = "write"
    /\ wi > Len(cleaned)
    /\ pc' = "done"
    /\ UNCHANGED << exists, trainFile, testFile, pathIdx, readLog,
                    train_records, test_records, combined, cleanCalled,
                    seen_content, deduped, length_filtered, ambiguous,
                    cleaned, score_counts, dirCreated, outOpened, outFile,
                    wi, stderr, exitCode >>

Next ==
    \/ CheckPathFound
    \/ CheckPathMissing
    \/ ReadTrain
    \/ ReadTest
    \/ Combine
    \/ CallClean
    \/ Report
    \/ OpenOutput
    \/ WriteRow
    \/ Finish

Spec == Init /\ [][Next]_vars

\* main() is one sequential thread: a step that can be taken is taken.
FairSpec == Spec /\ WF_vars(Next)

TypeOK ==
    /\ pc \in {"check", "read_train", "read_test", "combine", "clean",
               "report", "mkdir", "write", "done", "exit"}
    /\ exitCode \in {0, 1}

\* -------------------------------------------------------------- properties
\* The rows of the two partitions, train followed by test.
input == trainFile \o testFile

\* The scores a content has among rows.
ScoresOf(rows, c) ==
    {rows[i].score : i \in {j \in DOMAIN rows : rows[j].content = c}}

HasConflict(rows) ==
    \E i, j \in DOMAIN rows :
        /\ rows[i].content = rows[j].content
        /\ rows[i].content # None
        /\ Len(strip(rows[i].content)) >= MIN_CONTENT_LEN
        /\ rows[i].score # rows[j].score

\* C1: no record of clean(records) has a content that carries two or more
\* distinct scores anywhere in the records given to clean().
C1_NoAmbiguousContentSurvives ==
    cleanCalled =>
        \A k \in DOMAIN cleaned :
            Cardinality(ScoresOf(combined, cleaned[k].content)) <= 1

\* C2: no two records of clean(records) have the same content.
C2_Uniqueness ==
    cleanCalled =>
        \A i, j \in DOMAIN cleaned :
            cleaned[i].content = cleaned[j].content => i = j

C2_Witness ==
    /\ cleanCalled
    /\ cleaned # <<>>
    /\ \E i, j \in DOMAIN combined :
          i # j /\ combined[i] = combined[j] /\ combined[i] = cleaned[1]

\* C3: every record of clean(records) has a content that is not None and
\* whose length after strip() is at least 10.
C3_MinimumLength ==
    cleanCalled =>
        \A k \in DOMAIN cleaned :
            /\ cleaned[k].content # None
            /\ Len(strip(cleaned[k].content)) >= 10

C3_Witness ==
    /\ cleanCalled
    /\ Len(cleaned) = 1
    /\ Len(combined) = 2
    /\ combined[1] = cleaned[1]
    /\ combined[2].content # None
    /\ Len(combined[2].content) >= 10
    /\ Len(strip(combined[2].content)) < 10

\* C4: clean(train + test) is a subsequence of train + test made of first
\* occurrences: the records of the output are, in the same order, records
\* of the input, each one the first input record with its content.
C4_FirstOccurrenceSubsequence ==
    cleanCalled =>
        \E f \in [DOMAIN cleaned -> DOMAIN input] :
            /\ \A k \in DOMAIN cleaned :
                  /\ cleaned[k] = input[f[k]]
                  /\ \A j \in 1..(f[k] - 1) :
                        input[j].content # cleaned[k].content
            /\ \A k1, k2 \in DOMAIN cleaned : k1 < k2 => f[k1] < f[k2]

C4_Witness ==
    /\ cleanCalled
    /\ Len(trainFile) = 2
    /\ Len(testFile) = 1
    /\ testFile[1].content = trainFile[1].content
    /\ testFile[1].score # trainFile[1].score
    /\ Len(cleaned) = 2
    /\ cleaned[1] = trainFile[1]

\* C5: clean(clean(records)) = clean(records).
C5_Idempotent ==
    cleanCalled => clean(cleaned) = cleaned

C5_Witness ==
    /\ cleanCalled
    /\ cleaned # <<>>
    /\ Len(cleaned) < Len(combined)

MissingInput == ~exists[TRAIN_ARROW] \/ ~exists[TEST_ARROW]

FirstMissing == IF ~exists[TRAIN_ARROW] THEN TRAIN_ARROW ELSE TEST_ARROW

\* C6: when an input file is missing, main() never reads a file, never
\* calls clean() and never creates or writes the output, and it ends by
\* exiting with status 1 after reporting the missing path.
C6_MissingInputFailsFast ==
    /\ [](MissingInput =>
            /\ readLog = <<>>
            /\ ~cleanCalled
            /\ ~dirCreated
            /\ ~outOpened
            /\ outFile = <<>>
            /\ pc \in {"check", "exit"}
            /\ pc = "check" => stderr = <<>> /\ exitCode = 0
            /\ pc = "exit" => stderr = << FirstMissing >> /\ exitCode = 1)
    /\ (MissingInput ~> (pc = "exit" /\ exitCode = 1))

C6_Witness ==
    /\ exists[TRAIN_ARROW]
    /\ ~exists[TEST_ARROW]
    /\ trainFile # <<>>
    /\ pc = "exit"

\* The positions of the newline characters of the output file.
Newlines == {i \in DOMAIN outFile : outFile[i] = "\n"}

LineEnd(k) ==
    CHOOSE i \in Newlines : Cardinality({j \in Newlines : j < i}) = k - 1

\* The k-th line of the output file, without its newline.
Line(k) ==
    SubSeq(outFile, IF k = 1 THEN 1 ELSE LineEnd(k - 1) + 1, LineEnd(k) - 1)

Tabs(line) == {i \in DOMAIN line : line[i] = "\t"}

RECURSIVE ParseInt(_)
ParseInt(digits) ==
    IF digits = <<>> THEN 0
    ELSE 10 * ParseInt(SubSeq(digits, 1, Len(digits) - 1))
         + (CHOOSE d \in 0..9 : DigitChars[d + 1] = digits[Len(digits)])

Spaced(content) ==
    [i \in DOMAIN content |->
        IF content[i] \in {"\t", "\n", "\r"} THEN " " ELSE content[i]]

\* C7: after a successful run the output file has one line per cleaned
\* record, in order; each line has exactly one tab and no carriage return,
\* the content with its tabs, newlines and carriage returns turned into
\* spaces before the tab, and the score in decimal after it.
C7_OneLinePerRecord ==
    pc = "done" =>
        /\ outOpened
        /\ Cardinality(Newlines) = Len(cleaned)
        /\ outFile # <<>> => outFile[Len(outFile)] = "\n"
        /\ \A k \in DOMAIN cleaned :
              /\ Cardinality(Tabs(Line(k))) = 1
              /\ \A i \in DOMAIN Line(k) : Line(k)[i] # "\r"
              /\ LET t == CHOOSE i \in Tabs(Line(k)) : TRUE
                     digits == SubSeq(Line(k), t + 1, Len(Line(k)))
                 IN  /\ SubSeq(Line(k), 1, t - 1) = Spaced(cleaned[k].content)
                     /\ digits # <<>>
                     /\ \A i \in DOMAIN digits :
                           \E d \in 0..9 : DigitChars[d + 1] = digits[i]
                     /\ ParseInt(digits) = cleaned[k].score

C7_Witness ==
    /\ pc = "done"
    /\ Len(cleaned) = 3
    /\ \E k \in DOMAIN cleaned :
          \A e \in {"\t", "\n", "\r"} :
              \E i \in DOMAIN cleaned[k].content : cleaned[k].content[i] = e

NotNone(r) == r.content # None

\* C8: a record whose content is None is never in clean(records), it is
\* not added to seen_content and it does not change which other records
\* survive; clean of the empty sequence is the empty sequence.
C8_NoneIsSkipped ==
    cleanCalled =>
        /\ \A k \in DOMAIN cleaned : cleaned[k].content # None
        /\ None \notin seen_content
        /\ cleaned = clean(SelectSeq(combined, NotNone))
        /\ combined = <<>> => cleaned = <<>>

C8_Witness ==
    /\ cleanCalled
    /\ Len(combined) = 3
    /\ combined[2].content = None
    /\ Len(cleaned) = 2

\* C9: every content of clean(records) has exactly one score among the
\* records left by the length filter.
C9_OneScoreAfterLengthFilter ==
    cleanCalled =>
        \A k \in DOMAIN cleaned :
            Cardinality(ScoresOf(length_filtered, cleaned[k].content)) = 1

C9_Witness ==
    /\ cleanCalled
    /\ cleaned # <<>>
    /\ Len(length_filtered) < Len(deduped)

====
